---- MODULE Spec2Model ----
(***************************************************************************)
(* A model of the style-transfer pipeline (src/src/style_pipeline.py) and  *)
(* of the form front-end (src/src/ui_app.py): its script main and its      *)
(* in-memory stream decoder.                                               *)
(*                                                                         *)
(* Strings the code inspects (the approval response, the text of response  *)
(* parts, file paths) are sequences of one-character strings, so that      *)
(* strip(), lower(), join() and Path.stem are computed, not assumed.       *)
(* An optional value (a Python attribute that may be None) is a sequence of *)
(* at most one element: <<>> is None and <<v>> is the value v.             *)
(***************************************************************************)
EXTENDS Integers, Sequences, FiniteSets, TLC

VARIABLES
    \* ---- one run of the pipeline (style_pipeline.py) ----
    entry,              \* "main": through main(argv); "direct": apply_style called on a pipeline
    style_images,       \* args.style_images / the style_images argument
    photos,             \* args.photos / the target_photos argument
    api_key,            \* os.environ.get("GEMINI_API_KEY")
    pc,                 \* position of the run
    client,             \* TRUE once genai.Client was constructed (self._client)
    requests,           \* every request submitted to the generation service, in order
    prompts,            \* how many times the approval prompt was shown
    response,           \* what the operator typed at the approval prompt
    approval,           \* the local approval: the response stripped and lower-cased
    style_description,  \* the local style_description of apply_style
    final_prompt,       \* the local final_prompt of apply_style
    dirs,               \* directories created by os.makedirs
    idx,                \* 1-based position of the batch loop in photos
    on_disk,            \* per target position: what os.path.exists answered ("unchecked" before)
    status,             \* per target position: what happened to it
    exc,                \* the exception raised in the run, "none" if none
    main_result,        \* <<>> while main has not returned, else <<return value>>
    printed,            \* None before lines 85-88 ran, else the prompt they printed
    decoded,            \* the calls of _process_api_stream_response: target position and output_dir
    \* ---- one call of summarize_style on a response (style_pipeline.py, lines 52-63) ----
    sum_response,       \* the response of the service, None while there is none
    sum_result,         \* None while running, else the description returned or the error raised
    \* ---- one call of _process_stream_to_memory (ui_app.py, lines 31-48) ----
    dec_pc,             \* "idle", "reading", "returned" or "raised"
    images,             \* the local list images
    texts,              \* the local list texts
    chunks_read,        \* how many chunks the loop of line 35 has taken from the stream
    blank_skipped,      \* TRUE once a chunk was skipped at line 41
    empty_part,         \* TRUE once a part carried neither an image payload nor a non-empty text
    arrived_images,     \* every image payload a part of the stream carried, in arrival order
    arrived_texts,      \* every non-empty text a part of the stream carried, in arrival order
    unmixed,            \* TRUE while no part carried both an image payload and a non-empty text
    \* ---- calls of build_prompt on one pair of arguments (style_pipeline.py, lines 65-72) ----
    bp_base_prompt,     \* the argument base_prompt, None while there is no call
    bp_style_description, \* the argument style_description, None while there is no call
    bp_results,         \* the values the calls returned, in order
    \* ---- one run of the script of the form front-end (ui_app.py, main, lines 78-140) ----
    ui_pc,              \* "idle", "start", "remix", "display", "returned" or "raised"
    ui_api_key,         \* os.environ.get("GEMINI_API_KEY"), line 85
    uploaded_images,    \* what st.file_uploader returned: None or the list of uploaded files
    prompt_input,       \* what st.text_area returned
    generate,           \* what st.button returned: TRUE when the button was pressed
    st_warning,         \* TRUE once st.warning was called (line 87)
    st_error,           \* the messages passed to st.error, in order
    ui_prompt,          \* the local prompt of main (line 118), None before
    saved_paths,        \* the local saved_paths of main: None before _save_uploads returned
    ui_requests,        \* every request _remix_images submitted, in order
    remix_result,       \* None before _remix_images returned, else its (images, texts)
    st_shown            \* what lines 123-140 put on the page

pvars == <<entry, style_images, photos, api_key, pc, client, requests, prompts,
           response, approval, style_description, final_prompt, dirs, idx,
           on_disk, status, exc, main_result, printed, decoded>>

svars == <<sum_response, sum_result>>

dvars == <<dec_pc, images, texts, chunks_read, blank_skipped,
           empty_part, arrived_images,
           arrived_texts, unmixed>>

bvars == <<bp_base_prompt, bp_style_description, bp_results>>

uvars == <<ui_pc, ui_api_key, uploaded_images, prompt_input, generate, st_warning,
           st_error, ui_prompt, saved_paths, ui_requests, remix_result, st_shown>>

vars == <<pvars, svars, dvars, bvars, uvars>>

(***************************************************************************)
(* Bounds of the model.                                                    *)
(***************************************************************************)
MaxTargets == 2
MaxTextLen == 2
MaxParts == 2
MaxChunks == 3

(***************************************************************************)
(* Python values and string operations.                                    *)
(***************************************************************************)
None == <<>>
Some(v) == <<v>>
IsNone(o) == o = <<>>
Val(o) == o[1]

\* Python truthiness of an optional string or list: None and the empty one are falsy.
Truthy(o) == ~IsNone(o) /\ Val(o) # <<>>

\* str.strip() with no argument removes leading and trailing whitespace.
IsSpace(c) == c \in {" ", "\n", "\t"}

RECURSIVE LStrip(_)
LStrip(s) == IF s = <<>> THEN s
             ELSE IF IsSpace(Head(s)) THEN LStrip(Tail(s)) ELSE s

RECURSIVE RStrip(_)
RStrip(s) == IF s = <<>> THEN s
             ELSE IF IsSpace(s[Len(s)]) THEN RStrip(SubSeq(s, 1, Len(s) - 1)) ELSE s

Strip(s) == RStrip(LStrip(s))

\* str.lower() on the letters the model uses.
LowerChar(c) == CASE c = "Y" -> "y"
                  [] c = "E" -> "e"
                  [] c = "S" -> "s"
                  [] c = "N" -> "n"
                  [] c = "O" -> "o"
                  [] OTHER -> c

Lower(s) == [k \in 1..Len(s) |-> LowerChar(s[k])]

\* sep.join(list) for a list of strings.
RECURSIVE Join(_, _)
Join(sep, list) == IF list = <<>> THEN <<>>
                   ELSE IF Len(list) = 1 THEN list[1]
                   ELSE list[1] \o sep \o Join(sep, Tail(list))

\* All sequences over S of length lo..hi.
SeqsOf(S, lo, hi) == UNION {[1..n -> S] : n \in lo..hi}

(***************************************************************************)
(* Responses of the generation service: candidates[0].content.parts, every *)
(* level of which may be None.                                             *)
(***************************************************************************)
Part(inline_data, text) == [inline_data |-> inline_data, text |-> text]
Blob(data) == [data |-> data]
Content(parts) == [parts |-> parts]
Candidate(content) == [content |-> content]
Response(candidates) == [candidates |-> candidates]

\* A part of a text-only response: no inline data, a text that may be None.
TextPart(text) == Part(None, text)

\* The optional texts over the characters chars, up to length maxLen.
OptTexts(chars, maxLen) == {None} \cup {Some(t) : t \in SeqsOf(chars, 0, maxLen)}

\* The responses to the non-streaming summarize request with up to maxParts
\* text parts: no candidates (None or an empty list), a candidate without
\* content, a content without parts, or a list of parts.
SummaryResponses(chars, maxLen, maxParts) ==
    LET parts == {TextPart(t) : t \in OptTexts(chars, maxLen)}
        contents == {None, Some(Content(None))}
                    \cup {Some(Content(Some(ps))) : ps \in SeqsOf(parts, 0, maxParts)}
    IN  {Response(None), Response(Some(<<>>))}
        \cup {Response(Some(<<Candidate(c)>>)) : c \in contents}

(***************************************************************************)
(* StylePipeline.summarize_style, from the response on (lines 52-63): the  *)
(* result is [ok |-> TRUE, value |-> description] or                       *)
(* [ok |-> FALSE, value |-> message of the StylePipelineError raised].     *)
(***************************************************************************)
Returned(v) == [ok |-> TRUE, value |-> v]
Raised(msg) == [ok |-> FALSE, value |-> msg]

\* The texts of the truthy parts, appended as they are.
RECURSIVE DescriptionPartsUnstripped(_)
DescriptionPartsUnstripped(parts) ==
    IF parts = <<>> THEN <<>>
    ELSE IF Truthy(Head(parts).text)
         THEN <<Val(Head(parts).text)>> \o DescriptionPartsUnstripped(Tail(parts))
         ELSE DescriptionPartsUnstripped(Tail(parts))

\* lines 55-58: the stripped text of every part whose text is truthy
RECURSIVE DescriptionParts(_)
DescriptionParts(parts) ==
    IF parts = <<>> THEN <<>>
    ELSE IF Truthy(Head(parts).text)
         THEN <<Strip(Val(Head(parts).text))>> \o DescriptionParts(Tail(parts))
         ELSE DescriptionParts(Tail(parts))

\* line 56: response.candidates[0].content.parts or []
PartsOrEmpty(content) == IF IsNone(content.parts) THEN <<>> ELSE Val(content.parts)

\* A join that leaves the result untrimmed.
JoinDescriptionNoStrip(description_parts) == Join(<<"\n">>, description_parts)

\* line 60
JoinDescription(description_parts) == Strip(Join(<<"\n">>, description_parts))

SummarizeStyle(resp) ==
    IF \/ ~Truthy(resp.candidates)
       \/ IsNone(Val(resp.candidates)[1].content)
    THEN Raised("No style description returned by the model.")
    ELSE LET content == Val(Val(resp.candidates)[1].content)
             style == JoinDescription(DescriptionParts(PartsOrEmpty(content)))
         IN  IF style = <<>>
             THEN Raised("Received an empty style description.")
             ELSE Returned(style)

(***************************************************************************)
(* StylePipeline.build_prompt (lines 65-72).  The two fixed lines of       *)
(* connective text are one token each.                                     *)
(***************************************************************************)
Connective == <<"Apply the following postcard style details to the target photo while \n",
                "preserving the primary subject and composition: \n">>

\* A build_prompt that trims the style description before appending it.
BuildPromptStripsStyle(base_prompt, style) ==
    base_prompt \o <<"\n", "\n">> \o Connective \o Strip(style)

BuildPrompt(base_prompt, style) == base_prompt \o <<"\n", "\n">> \o Connective \o style

(***************************************************************************)
(* File paths.                                                             *)
(***************************************************************************)
\* The largest index of c in s, 0 if there is none (str.rfind, 1-based).
RECURSIVE RFind(_, _)
RFind(s, c) == IF s = <<>> THEN 0
               ELSE IF s[Len(s)] = c THEN Len(s)
               ELSE RFind(SubSeq(s, 1, Len(s) - 1), c)

\* pathlib.Path(path).name: the final component.
PathName(path) == SubSeq(path, RFind(path, "/") + 1, Len(path))

\* pathlib.Path(path).stem (line 114): the final component without its last
\* suffix; a dot that starts or ends the name starts no suffix.
Stem(path) ==
    LET name == PathName(path)
        dot == RFind(name, ".")
    IN  IF 1 < dot /\ dot < Len(name) THEN SubSeq(name, 1, dot - 1) ELSE name

\* os.path.join(a, b) for a non-empty a without a trailing separator and a
\* relative b (line 115).
PathJoin(a, b) == a \o <<"/">> \o b

(***************************************************************************)
(* Inputs of a run.                                                        *)
(***************************************************************************)
\* --style-image values: the core never looks into these paths.
S1 == <<"s", "1">>
S2 == <<"s", "2">>
S3 == <<"s", "3">>
StyleImageLists == {<<>>, <<S1>>, <<S1, S2>>, <<S2, S1>>, <<S1, S2, S3>>}

\* --photo values: two targets that share the base name t, and one that does not.
PhotoPaths == {<<"a", "/", "t", ".", "j">>, <<"b", "/", "t", ".", "p">>, <<"u", ".", "j">>}

\* GEMINI_API_KEY: unset, set to the empty string, set.
ApiKeys == {None, Some(<<>>), Some(<<"k">>)}

\* --base-prompt and --output-dir (lines 144-156), one token each.
BasePrompt == <<"Recreate this photo as a postcard illustration.">>
OutputDir == <<"styled_output">>

\* What the operator may type at the prompt: a word, with or without
\* whitespace around it.
ApprovalWords == {<<>>, <<"y">>, <<"Y">>, <<"n">>, <<"N">>, <<"n", "o">>,
                  <<"y", "e", "s">>, <<"Y", "e", "s">>, <<"Y", "E", "S">>,
                  <<"y", "e">>, <<"y", "e", "s", "s">>, <<"y", " ", "e", "s">>,
                  <<"o", "y">>}
ApprovalPads == {<<>>, <<" ">>, <<"\t">>}
ApprovalResponses == {pre \o w \o post : pre \in ApprovalPads, w \in ApprovalWords,
                                         post \in ApprovalPads}

\* The responses to the summarize request that a run of the pipeline draws from
\* (SpecSummarize covers the wider set).
PipelineResponses == SummaryResponses({" ", "a"}, 2, 1)

(***************************************************************************)
(* The requests submitted to the generation service.                       *)
(***************************************************************************)
STYLE_SUMMARY_INSTRUCTIONS == <<"STYLE_SUMMARY_INSTRUCTIONS">>

\* lines 43-50: generate_content, text only.  _load_image_parts turns the paths
\* into image parts, one per path and in their order; a request records the paths.
SummarizeRequest(paths) ==
    [kind |-> "generate_content", images |-> paths,
     text |-> STYLE_SUMMARY_INSTRUCTIONS, modalities |-> <<"TEXT">>, target |-> 0]

\* A request that puts the target photo before the style images.
StreamRequestPhotoFirst(paths, photo, prompt, k) ==
    [kind |-> "generate_content_stream", images |-> <<photo>> \o paths,
     text |-> prompt, modalities |-> <<"IMAGE", "TEXT">>, target |-> k]

\* lines 103-112: generate_content_stream for the target at position k
StreamRequest(paths, photo, prompt, k) ==
    [kind |-> "generate_content_stream", images |-> paths \o <<photo>>,
     text |-> prompt, modalities |-> <<"IMAGE", "TEXT">>, target |-> k]

StreamRequests == {k \in 1..Len(requests) : requests[k].kind = "generate_content_stream"}
SummaryRequests == {k \in 1..Len(requests) : requests[k].kind = "generate_content"}

(***************************************************************************)
(* The run of the pipeline.                                                *)
(***************************************************************************)
NoExc == <<>>

\* The calls that a specification does not run.
SummarizeIdle == sum_response = None /\ sum_result = None
BuildPromptIdle ==
    /\ bp_base_prompt = None
    /\ bp_style_description = None
    /\ bp_results = <<>>
UiIdle ==
    /\ ui_pc = "idle"
    /\ ui_api_key = None
    /\ uploaded_images = None
    /\ prompt_input = <<>>
    /\ generate = FALSE
    /\ st_warning = FALSE
    /\ st_error = <<>>
    /\ ui_prompt = None
    /\ saved_paths = None
    /\ ui_requests = <<>>
    /\ remix_result = None
    /\ st_shown = <<>>
DecoderIdle ==
    /\ dec_pc = "idle"
    /\ images = <<>>
    /\ texts = <<>>
    /\ chunks_read = 0
    /\ blank_skipped = FALSE
    /\ empty_part = FALSE
    /\ arrived_images = <<>>
    /\ arrived_texts = <<>>
    /\ unmixed = TRUE

RunEnded == pc \in {"rejected", "failed", "aborted", "done"}

\* The pipeline run that a specification does not run.
PipelineIdle ==
    /\ entry = "none"
    /\ style_images = <<>>
    /\ photos = <<>>
    /\ api_key = None
    /\ pc = "idle"
    /\ client = FALSE
    /\ requests = <<>>
    /\ prompts = 0
    /\ response = None
    /\ approval = None
    /\ style_description = None
    /\ final_prompt = None
    /\ dirs = {}
    /\ idx = 0
    /\ on_disk = <<>>
    /\ status = <<>>
    /\ exc = NoExc
    /\ main_result = <<>>
    /\ printed = None
    /\ decoded = <<>>

\* argparse (lines 130-143): --style-image and --photo are required, so main sees
\* at least one of each; a direct caller of apply_style may pass any list.
Init ==
    /\ entry \in {"main", "direct"}
    /\ style_images \in StyleImageLists
    /\ photos \in SeqsOf(PhotoPaths, 0, MaxTargets)
    /\ entry = "main" => Len(style_images) >= 1 /\ Len(photos) >= 1
    /\ api_key \in ApiKeys
    /\ pc = IF entry = "main" THEN "main" ELSE "construct"
    /\ client = FALSE
    /\ requests = <<>>
    /\ prompts = 0
    /\ response = None
    /\ approval = None
    /\ style_description = None
    /\ final_prompt = None
    /\ dirs = {}
    /\ idx = 0
    /\ on_disk = [k \in 1..Len(photos) |-> "unchecked"]
    /\ status = [k \in 1..Len(photos) |-> "pending"]
    /\ exc = NoExc
    /\ main_result = <<>>
    /\ printed = None
    /\ decoded = <<>>
    /\ SummarizeIdle
    /\ DecoderIdle
    /\ BuildPromptIdle
    /\ UiIdle

\* A handler of main that reports success after a StylePipelineError.
RaiseReturnsZero(cls, msg) ==
    /\ exc' = <<cls, msg>>
    /\ pc' = "failed"
    /\ main_result' = IF entry = "main" /\ cls = "StylePipelineError" THEN <<0>> ELSE main_result

\* An exception of class cls leaves apply_style or __init__: main turns a
\* StylePipelineError into the return value 1 (lines 176-178); any other
\* exception, and every exception of a direct call, reaches the caller.
Raise(cls, msg) ==
    /\ exc' = <<cls, msg>>
    /\ pc' = "failed"
    /\ main_result' = IF entry = "main" /\ cls = "StylePipelineError" THEN <<1>> ELSE main_result

\* A check that accepts a single style image.
TooFewStyleImagesOffByOne(paths) == Len(paths) < 1

\* line 163
TooFewStyleImages(paths) == Len(paths) < 2

\* main, lines 160-165
CheckStyleImages ==
    /\ pc = "main"
    /\ IF TooFewStyleImages(style_images)
       THEN pc' = "rejected" /\ main_result' = <<1>>
       ELSE pc' = "construct" /\ UNCHANGED main_result
    /\ UNCHANGED <<entry, style_images, photos, api_key, client, requests, prompts,
                   response, approval, style_description, final_prompt, dirs, idx,
                   on_disk, status, exc>>
    /\ UNCHANGED <<printed, decoded>>
    /\ UNCHANGED <<svars, dvars, bvars, uvars>>

\* A credential check that lets the empty string through.
KeyMissingNoneOnly(key) == IsNone(key)

\* line 36: not api_key
KeyMissing(key) == ~Truthy(key)

\* StylePipeline.__init__, lines 35-39 (called at line 169)
Construct ==
    /\ pc = "construct"
    /\ IF KeyMissing(api_key)
       THEN /\ Raise("StylePipelineError", "GEMINI_API_KEY environment variable not set.")
            /\ UNCHANGED client
       ELSE /\ client' = TRUE
            /\ pc' = "summarize"
            /\ UNCHANGED <<exc, main_result>>
    /\ UNCHANGED <<entry, style_images, photos, api_key, requests, prompts,
                   response, approval, style_description, final_prompt, dirs, idx,
                   on_disk, status>>
    /\ UNCHANGED <<printed, decoded>>
    /\ UNCHANGED <<svars, dvars, bvars, uvars>>

\* A summarize step whose StylePipelineError is caught and printed inside
\* apply_style, which then goes on to the approval prompt with an empty description.
SummarizeErrorSwallowed ==
    /\ pc = "summarize"
    /\ requests' = Append(requests, SummarizeRequest(style_images))
    /\ \/ /\ Raise("APIError", "generate_content failed")
          /\ UNCHANGED <<style_description, final_prompt>>
       \/ \E resp \in PipelineResponses :
            LET r == SummarizeStyle(resp)
                style == IF r.ok THEN r.value ELSE <<>>
            IN  /\ style_description' = Some(style)
                /\ final_prompt' = Some(BuildPrompt(BasePrompt, style))
                /\ pc' = "approval"
                /\ exc' = IF r.ok THEN exc ELSE <<"StylePipelineError", r.value>>
                /\ UNCHANGED main_result
    /\ UNCHANGED <<entry, style_images, photos, api_key, client, prompts,
                   response, approval, dirs, idx, on_disk, status>>
    /\ UNCHANGED <<printed, decoded>>
    /\ UNCHANGED <<svars, dvars, bvars, uvars>>

\* apply_style, lines 82-83: summarize_style (the request of lines 43-50, then
\* lines 52-63 on its response) and build_prompt.  The request itself may fail.
Summarize ==
    /\ pc = "summarize"
    /\ requests' = Append(requests, SummarizeRequest(style_images))
    /\ \/ /\ Raise("APIError", "generate_content failed")
          /\ UNCHANGED <<style_description, final_prompt>>
       \/ \E resp \in PipelineResponses :
            LET r == SummarizeStyle(resp) IN
            IF r.ok
            THEN /\ style_description' = Some(r.value)
                 /\ final_prompt' = Some(BuildPrompt(BasePrompt, r.value))
                 /\ pc' = "approval"
                 /\ UNCHANGED <<exc, main_result>>
            ELSE /\ Raise("StylePipelineError", r.value)
                 /\ UNCHANGED <<style_description, final_prompt>>
    /\ UNCHANGED <<entry, style_images, photos, api_key, client, prompts,
                   response, approval, dirs, idx, on_disk, status>>
    /\ UNCHANGED <<printed, decoded>>
    /\ UNCHANGED <<svars, dvars, bvars, uvars>>

\* A normalisation that forgets to trim.
NormalizeNoStrip(raw) == Lower(raw)

\* line 90: input(...).strip().lower()
Normalize(raw) == Lower(Strip(raw))

\* line 91
Approved(a) == a \in {<<"y">>, <<"y", "e", "s">>}

\* apply_style, lines 85-95: show the prompt, read the answer, return or create
\* the output root
AwaitApproval ==
    /\ pc = "approval"
    /\ prompts' = prompts + 1
    /\ printed' = Some(Val(final_prompt))
    /\ \E raw \in ApprovalResponses :
         /\ response' = Some(raw)
         /\ approval' = Some(Normalize(raw))
         /\ IF ~Approved(Normalize(raw))
            THEN /\ pc' = "aborted"
                 /\ main_result' = IF entry = "main" THEN <<0>> ELSE main_result
                 /\ UNCHANGED <<dirs, idx>>
            ELSE /\ dirs' = dirs \cup {OutputDir}
                 /\ idx' = 1
                 /\ pc' = "loop"
                 /\ UNCHANGED main_result
    /\ UNCHANGED <<entry, style_images, photos, api_key, client, requests,
                   style_description, final_prompt, on_disk, status, exc, decoded>>
    /\ UNCHANGED <<svars, dvars, bvars, uvars>>

\* A loop that never skips.
SkipNothing(exists) == FALSE

\* line 98: the target is skipped when os.path.exists(photo_path) is false
SkipTarget(exists) == ~exists

\* Every target decoded into the output root itself.
TargetOutputDirShared(photo_path) == OutputDir

\* lines 114-115
TargetOutputDir(photo_path) == PathJoin(OutputDir, Stem(photo_path))

\* A loop that submits the request of a target and moves on to the next target
\* without draining the stream.
NextTargetFanOut ==
    /\ pc = "loop"
    /\ idx <= Len(photos)
    /\ \E exists \in BOOLEAN :
         /\ on_disk' = [on_disk EXCEPT ![idx] = IF exists THEN "present" ELSE "absent"]
         /\ IF SkipTarget(exists)
            THEN /\ status' = [status EXCEPT ![idx] = "skipped"]
                 /\ UNCHANGED requests
            ELSE /\ requests' = Append(requests,
                        StreamRequest(style_images, photos[idx], Val(final_prompt), idx))
                 /\ status' = [status EXCEPT ![idx] = "open"]
    /\ idx' = idx + 1
    /\ UNCHANGED <<entry, style_images, photos, api_key, pc, client, prompts, response,
                   approval, style_description, final_prompt, dirs, exc, main_result>>
    /\ UNCHANGED <<printed, decoded>>
    /\ UNCHANGED <<svars, dvars, bvars, uvars>>

\* apply_style, lines 97-112: the next target is skipped when it is not on disk;
\* otherwise its parts are loaded and the streaming request is submitted.  Either
\* call may raise (an unreadable file, a failure of the service), and nothing in
\* the loop catches it.
NextTarget ==
    /\ pc = "loop"
    /\ idx <= Len(photos)
    /\ \E exists \in BOOLEAN :
         /\ on_disk' = [on_disk EXCEPT ![idx] = IF exists THEN "present" ELSE "absent"]
         /\ IF SkipTarget(exists)
            THEN /\ status' = [status EXCEPT ![idx] = "skipped"]
                 /\ idx' = idx + 1
                 /\ UNCHANGED <<pc, requests, exc, main_result>>
            ELSE \/ /\ requests' = Append(requests,
                           StreamRequest(style_images, photos[idx], Val(final_prompt), idx))
                    /\ status' = [status EXCEPT ![idx] = "open"]
                    /\ pc' = "drain"
                    /\ UNCHANGED <<idx, exc, main_result>>
                 \/ /\ status' = [status EXCEPT ![idx] = "submit_failed"]
                    /\ Raise("APIError", "generate_content_stream failed")
                    /\ UNCHANGED <<idx, requests>>
    /\ UNCHANGED <<entry, style_images, photos, api_key, client, prompts, response,
                   approval, style_description, final_prompt, dirs>>
    /\ UNCHANGED <<printed, decoded>>
    /\ UNCHANGED <<svars, dvars, bvars, uvars>>

\* mix_images._process_api_stream_response, called at line 117: it drains the
\* stream into the directory, and an error while reading the stream ends it with
\* an exception.
DrainOutcomes == {"ok", "drain_failed"}

\* apply_style, lines 114-120: create the target's output directory, then drain
\* the stream into it; nothing in the loop catches an exception of the decoder.
DrainTarget ==
    /\ pc = "drain"
    /\ dirs' = dirs \cup {TargetOutputDir(photos[idx])}
    /\ decoded' = Append(decoded, [target |-> idx,
                                   output_dir |-> TargetOutputDir(photos[idx])])
    /\ \E outcome \in DrainOutcomes :
         /\ status' = [status EXCEPT ![idx] = outcome]
         /\ IF outcome = "ok"
            THEN /\ idx' = idx + 1
                 /\ pc' = "loop"
                 /\ UNCHANGED <<exc, main_result>>
            ELSE /\ Raise("APIError", "reading the stream failed")
                 /\ UNCHANGED idx
    /\ UNCHANGED <<entry, style_images, photos, api_key, client, requests, prompts,
                   response, approval, style_description, final_prompt, on_disk,
                   printed>>
    /\ UNCHANGED <<svars, dvars, bvars, uvars>>

\* the loop of line 97 is exhausted: apply_style returns, main returns 0 (line 179)
Finish ==
    /\ pc = "loop"
    /\ idx > Len(photos)
    /\ pc' = "done"
    /\ main_result' = IF entry = "main" THEN <<0>> ELSE main_result
    /\ UNCHANGED <<entry, style_images, photos, api_key, client, requests, prompts,
                   response, approval, style_description, final_prompt, dirs, idx,
                   on_disk, status, exc>>
    /\ UNCHANGED <<printed, decoded>>
    /\ UNCHANGED <<svars, dvars, bvars, uvars>>

Next ==
    \/ CheckStyleImages
    \/ Construct
    \/ Summarize
    \/ AwaitApproval
    \/ NextTarget
    \/ DrainTarget
    \/ Finish

Spec == Init /\ [][Next]_vars

(***************************************************************************)
(* summarize_style on its own: the service answers the summarize request   *)
(* with any response of the bounded set, and lines 52-63 run on it.        *)
(***************************************************************************)
SummaryChars == {" ", "\n", "a"}

InitSummarize ==
    /\ PipelineIdle
    /\ DecoderIdle
    /\ BuildPromptIdle
    /\ UiIdle
    /\ sum_response \in {Some(r) : r \in SummaryResponses(SummaryChars, MaxTextLen, MaxParts)}
    /\ sum_result = None

\* summarize_style, lines 52-63
ReturnSummary ==
    /\ IsNone(sum_result)
    /\ sum_result' = Some(SummarizeStyle(Val(sum_response)))
    /\ UNCHANGED <<sum_response, pvars, dvars, bvars, uvars>>

NextSummarize == ReturnSummary

SpecSummarize == InitSummarize /\ [][NextSummarize]_vars

(***************************************************************************)
(* _process_stream_to_memory (ui_app.py, lines 31-48).  The stream is lazy: *)
(* the service delivers one chunk at a time and may end the stream after   *)
(* any chunk.                                                              *)
(***************************************************************************)
Chunk(candidates) == [candidates |-> candidates]

\* The parts of streamed chunks.  Inline data is absent, a blob without bytes
\* or with no bytes, or a blob with one of two payloads; a text is absent, empty
\* or one of two texts.
NoData == {None, Some(Blob(None)), Some(Blob(Some(<<>>)))}
NoText == {None, Some(<<>>)}
B1 == Some(Blob(Some(<<"b1">>)))
B2 == Some(Blob(Some(<<"b2">>)))
TextA == Some(<<"a">>)
TextB == Some(<<"b">>)

EmptyParts == {Part(d, t) : d \in NoData, t \in NoText}
ImageParts == {Part(d, t) : d \in {B1, B2}, t \in NoText}
TextParts == {Part(d, t) : d \in {None, Some(Blob(Some(<<>>)))}, t \in {TextA, TextB}}
MixedParts == {Part(B1, TextA)}
DecoderParts == EmptyParts \cup ImageParts \cup TextParts \cup MixedParts

\* The chunks: candidates None or an empty list, a candidate without content, a
\* content without parts, or a list of no, one or two parts.
DecoderChunks ==
    {Chunk(None), Chunk(Some(<<>>)), Chunk(Some(<<Candidate(None)>>)),
     Chunk(Some(<<Candidate(Some(Content(None)))>>))}
    \cup {Chunk(Some(<<Candidate(Some(Content(Some(ps))))>>)) :
            ps \in {<<>>} \cup {<<p>> : p \in DecoderParts}
                          \cup {<<p, q>> : p \in DecoderParts, q \in DecoderParts}}

\* line 44: part.inline_data and part.inline_data.data
HasImage(part) == ~IsNone(part.inline_data) /\ Truthy(Val(part.inline_data).data)

\* line 46: part.text
HasText(part) == Truthy(part.text)

\* A part step that puts the newest item first.
DecodePartPrepend(part, acc) ==
    IF HasImage(part)
    THEN [acc EXCEPT !.images = <<Val(Val(part.inline_data).data)>> \o @]
    ELSE IF HasText(part)
         THEN [acc EXCEPT !.texts = <<Val(part.text)>> \o @]
         ELSE acc

\* lines 44-47, on the lists acc.images and acc.texts
DecodePart(part, acc) ==
    IF HasImage(part)
    THEN [acc EXCEPT !.images = Append(@, Val(Val(part.inline_data).data))]
    ELSE IF HasText(part)
         THEN [acc EXCEPT !.texts = Append(@, Val(part.text))]
         ELSE acc

\* line 43: the loop over the parts of one chunk
RECURSIVE DecodeParts(_, _)
DecodeParts(parts, acc) ==
    IF parts = <<>> THEN acc ELSE DecodeParts(Tail(parts), DecodePart(Head(parts), acc))

\* lines 36-40: what the test of the chunk does.  candidates[0] of an empty list
\* raises IndexError.
ChunkTest(chunk) ==
    IF IsNone(chunk.candidates) THEN "skip"
    ELSE IF Val(chunk.candidates) = <<>> THEN "IndexError"
    ELSE IF IsNone(Val(chunk.candidates)[1].content) THEN "skip"
    ELSE IF IsNone(Val(Val(chunk.candidates)[1].content).parts) THEN "skip"
    ELSE "decode"

\* The parts a chunk carries, none when it has no candidate, no content or no parts.
PartsOf(chunk) ==
    IF /\ Truthy(chunk.candidates)
       /\ ~IsNone(Val(chunk.candidates)[1].content)
       /\ ~IsNone(Val(Val(chunk.candidates)[1].content).parts)
    THEN Val(Val(Val(chunk.candidates)[1].content).parts)
    ELSE <<>>

\* The image payloads, and the non-empty texts, that a list of parts carries.
RECURSIVE PayloadsOf(_)
PayloadsOf(parts) ==
    IF parts = <<>> THEN <<>>
    ELSE LET p == Head(parts)
             here == IF ~IsNone(p.inline_data)
                        /\ Val(p.inline_data).data \notin {None, Some(<<>>)}
                     THEN <<Val(Val(p.inline_data).data)>> ELSE <<>>
         IN  here \o PayloadsOf(Tail(parts))

RECURSIVE NonEmptyTextsOf(_)
NonEmptyTextsOf(parts) ==
    IF parts = <<>> THEN <<>>
    ELSE LET p == Head(parts)
             here == IF p.text \notin {None, Some(<<>>)} THEN <<Val(p.text)>> ELSE <<>>
         IN  here \o NonEmptyTextsOf(Tail(parts))

\* Every part of the list is a text fragment, an image fragment or an empty one.
Unmixed(parts) ==
    \A k \in 1..Len(parts) :
        Len(PayloadsOf(<<parts[k]>>)) + Len(NonEmptyTextsOf(<<parts[k]>>)) <= 1

\* Some part of the list is an empty fragment.
HasEmptyPart(parts) ==
    \E k \in 1..Len(parts) :
        Len(PayloadsOf(<<parts[k]>>)) + Len(NonEmptyTextsOf(<<parts[k]>>)) = 0

InitDecode ==
    /\ PipelineIdle
    /\ SummarizeIdle
    /\ BuildPromptIdle
    /\ UiIdle
    /\ dec_pc = "reading"
    /\ images = <<>>
    /\ texts = <<>>
    /\ chunks_read = 0
    /\ blank_skipped = FALSE
    /\ empty_part = FALSE
    /\ arrived_images = <<>>
    /\ arrived_texts = <<>>
    /\ unmixed = TRUE

\* one iteration of the loop of line 35 (lines 35-47)
ReadChunk ==
    /\ dec_pc = "reading"
    /\ chunks_read < MaxChunks
    /\ \E chunk \in DecoderChunks :
         /\ chunks_read' = chunks_read + 1
         /\ empty_part' = (empty_part \/ HasEmptyPart(PartsOf(chunk)))
         /\ arrived_images' = arrived_images \o PayloadsOf(PartsOf(chunk))
         /\ arrived_texts' = arrived_texts \o NonEmptyTextsOf(PartsOf(chunk))
         /\ unmixed' = (unmixed /\ Unmixed(PartsOf(chunk)))
         /\ LET test == ChunkTest(chunk) IN
            CASE test = "skip" ->
                    /\ blank_skipped' = TRUE
                    /\ UNCHANGED <<dec_pc, images, texts>>
              [] test = "IndexError" ->
                    /\ dec_pc' = "raised"
                    /\ UNCHANGED <<blank_skipped, images, texts>>
              [] test = "decode" ->
                    LET acc == DecodeParts(Val(Val(Val(chunk.candidates)[1].content).parts),
                                           [images |-> images, texts |-> texts])
                    IN  /\ images' = acc.images
                        /\ texts' = acc.texts
                        /\ UNCHANGED <<dec_pc, blank_skipped>>
    /\ UNCHANGED <<pvars, svars, bvars, uvars>>

\* the stream ends: line 48 returns images, texts
EndOfStream ==
    /\ dec_pc = "reading"
    /\ dec_pc' = "returned"
    /\ UNCHANGED <<images, texts, chunks_read, blank_skipped, empty_part,
                   arrived_images, arrived_texts, unmixed>>
    /\ UNCHANGED <<pvars, svars, bvars, uvars>>

NextDecode == ReadChunk \/ EndOfStream

SpecDecode == InitDecode /\ [][NextDecode]_vars

(***************************************************************************)
(* build_prompt on its own: the method is called, more than once, on one   *)
(* pair of arguments.                                                      *)
(***************************************************************************)
MaxCalls == 2

\* characters of the arguments: a letter and two kinds of whitespace
PromptChars == {" ", "\n", "a"}

InitBuildPrompt ==
    /\ PipelineIdle
    /\ SummarizeIdle
    /\ DecoderIdle
    /\ UiIdle
    /\ bp_base_prompt \in {Some(b) : b \in SeqsOf(PromptChars, 0, MaxTextLen)}
    /\ bp_style_description \in {Some(d) : d \in SeqsOf(PromptChars, 0, MaxTextLen)}
    /\ bp_results = <<>>

\* build_prompt, lines 65-72
CallBuildPrompt ==
    /\ bp_base_prompt # None
    /\ Len(bp_results) < MaxCalls
    /\ bp_results' = Append(bp_results,
                            BuildPrompt(Val(bp_base_prompt), Val(bp_style_description)))
    /\ UNCHANGED <<bp_base_prompt, bp_style_description, pvars, svars, dvars, uvars>>

NextBuildPrompt == CallBuildPrompt

SpecBuildPrompt == InitBuildPrompt /\ [][NextBuildPrompt]_vars

(***************************************************************************)
(* The script of the form front-end (ui_app.py, main, lines 78-140): one   *)
(* run of the script with the values its widgets returned.                 *)
(***************************************************************************)
\* the largest number of files uploaded in the model
MaxUploads == 6

\* line 114
MaxImages == 5

Digits == <<"1", "2", "3", "4", "5", "6", "7", "8", "9">>

\* the k-th uploaded file; _save_uploads reads its name (line 24)
UploadedFile(k) == [name |-> <<"f", Digits[k]>>]

UploadLists == {[k \in 1..n |-> UploadedFile(k)] : n \in 0..MaxUploads}

\* what the operator typed into the text area
UiPrompts == {<<>>, <<" ">>, <<"p">>, <<" ", "p", " ">>}

DefaultPromptOne ==
    <<"Turn this image into a professional quality studio shoot with better lighting and depth of field.">>
DefaultPromptMany ==
    <<"Combine the subjects of these images in a natural way, producing a new image.">>

\* _build_prompt, lines 51-56
UiBuildPrompt(prompt, num_images) ==
    IF Strip(prompt) # <<>> THEN Strip(prompt)
    ELSE IF num_images = 1 THEN DefaultPromptOne
    ELSE DefaultPromptMany

\* tempfile.mkdtemp(prefix="remix_uploads_"), line 21
TempDir == <<"remix_uploads_">>

\* _save_uploads, lines 19-28: one path per uploaded file, in order
SaveUploads(files) == [k \in 1..Len(files) |-> PathJoin(TempDir, files[k].name)]

\* _remix_images, lines 60-74: one image part per path, then the prompt
RemixRequest(paths, prompt, key) ==
    [kind |-> "generate_content_stream", images |-> paths, text |-> prompt,
     modalities |-> <<"IMAGE", "TEXT">>, api_key |-> key]

\* _remix_images, lines 69-75: the call raises, or returns the (images, texts)
\* of _process_stream_to_memory
RemixOutcomes ==
    {[raised |-> TRUE, images |-> <<>>, texts |-> <<>>]}
    \cup {[raised |-> FALSE, images |-> i, texts |-> t] :
            i \in {<<>>, << <<"b1">> >>}, t \in {<<>>, << <<"a">> >>}}

\* line 108: not api_key
NoApiKey(key) == IsNone(key) \/ Val(key) = <<>>

\* line 111: not uploaded_images
NoUploads(files) == Len(files) = 0

\* A limit that lets one more file through.
TooManyUploadsOffByOne(files) == Len(files) > MaxImages + 1

\* line 114: len(uploaded_images) > 5
TooManyUploads(files) == Len(files) > MaxImages

InitUi ==
    /\ PipelineIdle
    /\ SummarizeIdle
    /\ DecoderIdle
    /\ BuildPromptIdle
    /\ ui_pc = "start"
    /\ ui_api_key \in ApiKeys
    /\ uploaded_images \in UploadLists
    /\ prompt_input \in UiPrompts
    /\ generate \in BOOLEAN
    /\ st_warning = FALSE
    /\ st_error = <<>>
    /\ ui_prompt = None
    /\ saved_paths = None
    /\ ui_requests = <<>>
    /\ remix_result = None
    /\ st_shown = <<>>

\* main, lines 85-120: the warning, the three checks of a pressed button, then
\* the prompt and the saved uploads
UiGenerate ==
    /\ ui_pc = "start"
    /\ st_warning' = NoApiKey(ui_api_key)
    /\ IF ~generate
       THEN /\ ui_pc' = "returned"
            /\ UNCHANGED <<st_error, ui_prompt, saved_paths>>
       ELSE IF NoApiKey(ui_api_key)
       THEN /\ st_error' = Append(st_error, "Please set GEMINI_API_KEY before running the remix.")
            /\ ui_pc' = "returned"
            /\ UNCHANGED <<ui_prompt, saved_paths>>
       ELSE IF NoUploads(uploaded_images)
       THEN /\ st_error' = Append(st_error, "Upload at least one image to begin.")
            /\ ui_pc' = "returned"
            /\ UNCHANGED <<ui_prompt, saved_paths>>
       ELSE IF TooManyUploads(uploaded_images)
       THEN /\ st_error' = Append(st_error, "Please upload no more than five images.")
            /\ ui_pc' = "returned"
            /\ UNCHANGED <<ui_prompt, saved_paths>>
       ELSE /\ ui_prompt' = Some(UiBuildPrompt(prompt_input, Len(uploaded_images)))
            /\ saved_paths' = Some(SaveUploads(uploaded_images))
            /\ ui_pc' = "remix"
            /\ UNCHANGED st_error
    /\ UNCHANGED <<ui_api_key, uploaded_images, prompt_input, generate, ui_requests,
                   remix_result, st_shown>>
    /\ UNCHANGED <<pvars, svars, dvars, bvars>>

\* main, line 121: _remix_images submits one streaming request and decodes it
UiRemix ==
    /\ ui_pc = "remix"
    /\ ui_requests' = Append(ui_requests,
                             RemixRequest(Val(saved_paths), Val(ui_prompt), Val(ui_api_key)))
    /\ \E outcome \in RemixOutcomes :
         IF outcome.raised
         THEN /\ ui_pc' = "raised"
              /\ UNCHANGED remix_result
         ELSE /\ ui_pc' = "display"
              /\ remix_result' = Some([images |-> outcome.images, texts |-> outcome.texts])
    /\ UNCHANGED <<ui_api_key, uploaded_images, prompt_input, generate, st_warning,
                   st_error, ui_prompt, saved_paths, st_shown>>
    /\ UNCHANGED <<pvars, svars, dvars, bvars>>

\* main, lines 123-140: the messages, then the images or the notice that none came
UiDisplay ==
    /\ ui_pc = "display"
    /\ st_shown' = (IF Val(remix_result).texts # <<>> THEN <<"Model messages">> ELSE <<>>)
                   \o (IF Val(remix_result).images # <<>>
                       THEN <<"Remixed images">>
                       ELSE <<"No images were returned by the model.">>)
    /\ ui_pc' = "returned"
    /\ UNCHANGED <<ui_api_key, uploaded_images, prompt_input, generate, st_warning,
                   st_error, ui_prompt, saved_paths, ui_requests, remix_result>>
    /\ UNCHANGED <<pvars, svars, dvars, bvars>>

NextUi ==
    \/ UiGenerate
    \/ UiRemix
    \/ UiDisplay

SpecUi == InitUi /\ [][NextUi]_vars

(***************************************************************************)
(* Claims about the run of the pipeline, checked under Spec.               *)
(***************************************************************************)
\* The response, read as the claim reads it: the characters between the first
\* and the last non-whitespace character spell y or yes in any letter case.
SpellsYes(raw) ==
    LET solid == {k \in 1..Len(raw) : raw[k] \notin {" ", "\n", "\t"}} IN
    /\ solid # {}
    /\ LET lo == CHOOSE k \in solid : \A j \in solid : k <= j
           hi == CHOOSE k \in solid : \A j \in solid : k >= j
           word == SubSeq(raw, lo, hi)
       IN  \/ Len(word) = 1 /\ word[1] \in {"y", "Y"}
           \/ /\ Len(word) = 3
              /\ word[1] \in {"y", "Y"}
              /\ word[2] \in {"e", "E"}
              /\ word[3] \in {"s", "S"}

\* C1: once the operator has answered, an answer that does not spell y or yes
\* (the empty answer included) has ended the run as aborted, with no streaming
\* request submitted and no directory created; an answer that spells y or yes
\* has taken the run into generation: the output root exists and the run is in
\* the batch loop or past it.
ApprovalGate ==
    ~IsNone(response) =>
        IF SpellsYes(Val(response))
        THEN /\ pc \in {"loop", "drain", "done", "failed"}
             /\ idx >= 1
             /\ OutputDir \in dirs
        ELSE /\ pc = "aborted"
             /\ StreamRequests = {}
             /\ dirs = {}

\* C1 witness: the run was aborted on an unrecognized answer with whitespace around it.
ApprovalGateWitness ==
    /\ pc = "aborted"
    /\ response = Some(<<" ", "y", "e", " ">>)
    /\ StreamRequests = {}

\* C1, the affirmative half: " Yes " took a run through a streaming request.
ApprovalGateProceeds ==
    /\ response = Some(<<" ", "Y", "e", "s", " ">>)
    /\ StreamRequests # {}

\* C2 (as claimed): in a run that has ended after approval, every target was
\* attempted and the run ended as done, whatever failed on the way.
FailureContained ==
    (RunEnded /\ idx >= 1) =>
        /\ pc = "done"
        /\ \A k \in 1..Len(photos) : status[k] # "pending"

\* The targets other than k.
Others(k) == (1..Len(photos)) \ {k}

\* C3: when target k was not on disk and every other target was, and was
\* processed without a failure, then no request was submitted for k, exactly one
\* was submitted for each other target, and the directories created are the
\* output root and the subdirectories of the other targets, nothing else.
MissingTargetIsolated ==
    \A k \in 1..Len(photos) :
        ( /\ on_disk[k] = "absent"
          /\ \A j \in Others(k) : on_disk[j] = "present" /\ status[j] = "ok" )
        => /\ status[k] = "skipped"
           /\ \A r \in StreamRequests : requests[r].target # k
           /\ \A j \in Others(k) :
                Cardinality({r \in StreamRequests : requests[r].target = j}) = 1
           /\ dirs = {OutputDir} \cup {PathJoin(OutputDir, Stem(photos[j])) : j \in Others(k)}

\* C3 witness: a finished batch whose first target was missing and whose second
\* target, of another base name, was processed.
MissingTargetIsolatedWitness ==
    /\ pc = "done"
    /\ Len(photos) = 2
    /\ on_disk = <<"absent", "present">>
    /\ status = <<"skipped", "ok">>
    /\ Stem(photos[1]) # Stem(photos[2])

\* C4 (as claimed): a direct call of apply_style with fewer than two style images
\* submits no request.
DirectCallRejectsFewReferences ==
    (entry = "direct" /\ Len(style_images) < 2) => requests = <<>>

\* C5 (as claimed): through main, one style image ends the run before the client
\* is constructed and before any request; with two, a run that has ended has
\* submitted the summarize request.
MinimumReferencesAsClaimed ==
    entry = "main" =>
        /\ Len(style_images) = 1 =>
              /\ pc \in {"main", "rejected"}
              /\ ~client
              /\ requests = <<>>
        /\ (Len(style_images) = 2 /\ RunEnded) => SummaryRequests # {}

\* C5 (amended): through main, one style image ends the run with the return
\* value 1 before the client is constructed and before any request; two style
\* images are never rejected by that check, and with the credential set the run
\* constructs the client and submits the summarize request first.
MinimumReferences ==
    entry = "main" =>
        /\ Len(style_images) = 1 =>
              /\ pc \in {"main", "rejected"}
              /\ pc = "rejected" => main_result = <<1>>
              /\ ~client
              /\ requests = <<>>
        /\ Len(style_images) = 2 =>
              /\ pc # "rejected"
              /\ (Truthy(api_key) /\ pc \notin {"main", "construct", "summarize"}) =>
                    /\ client
                    /\ requests # <<>>
                    /\ requests[1] = SummarizeRequest(style_images)

\* C5 witness: a run through main with two style images and a credential has
\* submitted the summarize request.
MinimumReferencesWitness ==
    /\ entry = "main"
    /\ Len(style_images) = 2
    /\ Truthy(api_key)
    /\ pc = "approval"
    /\ Len(requests) = 1

\* C6: with the credential unset or empty, no client is ever constructed, no
\* request is submitted and no approval prompt is shown; the constructor, once
\* called, has raised the configuration error, and through main the run then
\* has the return value 1.
CredentialRequired ==
    ~Truthy(api_key) =>
        /\ ~client
        /\ requests = <<>>
        /\ prompts = 0
        /\ pc \in {"main", "construct", "rejected", "failed"}
        /\ pc = "failed" =>
              /\ exc = <<"StylePipelineError", "GEMINI_API_KEY environment variable not set.">>
              /\ entry = "main" => main_result = <<1>>

\* C6 witness: the constructor has failed on an empty credential.
CredentialRequiredWitness ==
    /\ api_key = Some(<<>>)
    /\ pc = "failed"
    /\ requests = <<>>

\* The errors summarize_style raises (lines 53 and 62).
SummaryErrors == {<<"StylePipelineError", "No style description returned by the model.">>,
                  <<"StylePipelineError", "Received an empty style description.">>}

\* C8: once summarize_style has raised for want of a usable description, the run
\* has ended: one summarize request was made and no other request, no approval
\* prompt was shown and no directory was created.
SummaryFailureIsFatal ==
    exc \in SummaryErrors =>
        /\ pc = "failed"
        /\ Len(requests) = 1
        /\ StreamRequests = {}
        /\ prompts = 0
        /\ IsNone(response)
        /\ dirs = {}

\* C8 witness: the run has ended on an empty style description.
SummaryFailureIsFatalWitness ==
    /\ exc = <<"StylePipelineError", "Received an empty style description.">>
    /\ pc = "failed"

(***************************************************************************)
(* Claims about summarize_style, checked under SpecSummarize.              *)
(***************************************************************************)
\* C7: whatever the response, summarize_style has either raised one of its two
\* errors or returned a string that is not empty and neither starts nor ends
\* with a whitespace character.
NonEmptySummary ==
    ~IsNone(sum_result) =>
        LET r == Val(sum_result) IN
        IF r.ok
        THEN /\ r.value # <<>>
             /\ r.value[1] \notin {" ", "\n", "\t"}
             /\ r.value[Len(r.value)] \notin {" ", "\n", "\t"}
        ELSE <<"StylePipelineError", r.value>> \in SummaryErrors

\* C7 witness: a response whose first part is whitespace only and whose second
\* part has text with whitespace around it was summarized to the bare text.
NonEmptySummaryWitness ==
    /\ sum_response = Some(Response(Some(<<Candidate(Some(Content(Some(
                          <<TextPart(Some(<<" ">>)), TextPart(Some(<<"a", " ">>))>>))))>>)))
    /\ sum_result = Some(Returned(<<"a">>))

\* C7, the failing side: a response of whitespace-only parts raised the error.
NonEmptySummaryRaises ==
    /\ sum_response = Some(Response(Some(<<Candidate(Some(Content(Some(
                          <<TextPart(Some(<<" ">>)), TextPart(Some(<<"\n">>))>>))))>>)))
    /\ sum_result = Some(Raised("Received an empty style description."))

\* The text values of the text-bearing parts of the first candidate of the
\* response, in order, as the service sent them.
FragmentTexts(resp) ==
    LET content == Val(Val(resp.candidates)[1].content)
        parts == IF content.parts = None THEN <<>> ELSE Val(content.parts)
        bearing == SelectSeq(parts, LAMBDA p : p.text \notin {None, Some(<<>>)})
    IN  [k \in 1..Len(bearing) |-> Val(bearing[k].text)]

\* C16 (as claimed): the description returned is the texts of the text-bearing
\* parts joined by one newline, with whitespace removed only at the two ends of
\* the joined text.
JoinedThenStripped ==
    (~IsNone(sum_result) /\ Val(sum_result).ok) =>
        Val(sum_result).value = Strip(Join(<<"\n">>, FragmentTexts(Val(sum_response))))

\* C16 (amended): the description returned is the texts of the text-bearing
\* parts, each with the whitespace at its own two ends removed, joined by one
\* newline, with whitespace removed at the two ends of the joined text.
StrippedThenJoined ==
    (~IsNone(sum_result) /\ Val(sum_result).ok) =>
        LET texts_ == FragmentTexts(Val(sum_response)) IN
        Val(sum_result).value =
            Strip(Join(<<"\n">>, [k \in 1..Len(texts_) |-> Strip(texts_[k])]))

\* C16 witness: the parts "a " and " a" were summarized to a, newline, a: the
\* whitespace on either side of the fragment boundary is gone.
StrippedThenJoinedWitness ==
    /\ sum_response = Some(Response(Some(<<Candidate(Some(Content(Some(
                          <<TextPart(Some(<<"a", " ">>)), TextPart(Some(<<" ", "a">>))>>))))>>)))
    /\ sum_result = Some(Returned(<<"a", "\n", "a">>))

(***************************************************************************)
(* Claims about the in-memory stream decoder, checked under SpecDecode.    *)
(***************************************************************************)
\* C9: when the decoder returns from a stream whose parts were each a text
\* fragment, an image fragment or an empty fragment, its images are the image
\* payloads of the stream in arrival order and its texts are the non-empty texts
\* of the stream in arrival order.
DecodeInArrivalOrder ==
    (dec_pc = "returned" /\ unmixed) =>
        /\ images = arrived_images
        /\ texts = arrived_texts

\* C9 witness: text a, image b1, text b, image b2, an empty fragment and image
\* b1 were decoded to the texts a, b and the images b1, b2, b1.
DecodeInArrivalOrderWitness ==
    /\ dec_pc = "returned"
    /\ unmixed
    /\ empty_part
    /\ chunks_read = 3
    /\ arrived_texts = <<<<"a">>, <<"b">>>>
    /\ arrived_images = <<<<"b1">>, <<"b2">>, <<"b1">>>>
    /\ texts = <<<<"a">>, <<"b">>>>
    /\ images = <<<<"b1">>, <<"b2">>, <<"b1">>>>

\* C10 (as claimed): no chunk makes the decoder raise: a chunk without
\* candidates (absent or an empty list), without content or without parts is
\* passed over, and the stream is read on.
BlankChunksSkipped == dec_pc # "raised"

(***************************************************************************)
(* Claims about the order of the batch, checked under Spec.                *)
(***************************************************************************)
OpenStreams == {k \in 1..Len(photos) : status[k] = "open"}

\* C11: targets are processed one at a time in the order given: at most one
\* stream is open, the streaming requests were submitted in increasing
\* position of their targets, at most one per target, each for the photo at
\* that position, and when the request of a target was submitted every earlier
\* target had been skipped or had its stream drained to the end, and no later
\* target had been touched while the stream was open.
OneTargetAtATime ==
    /\ Cardinality(OpenStreams) <= 1
    /\ \A r1, r2 \in StreamRequests :
         r1 < r2 => requests[r1].target < requests[r2].target
    /\ \A r \in StreamRequests :
         /\ requests[r].target \in 1..Len(photos)
         /\ \A j \in 1..(requests[r].target - 1) : status[j] \in {"skipped", "ok"}
    /\ \A k \in OpenStreams :
         /\ \A j \in 1..(k - 1) : status[j] \in {"skipped", "ok"}
         /\ \A j \in (k + 1)..Len(photos) : status[j] = "pending"
         /\ \A r \in StreamRequests : requests[r].target <= k

\* C11 witness: the second of two targets has its stream open after the stream
\* of the first was drained to the end.
OneTargetAtATimeWitness ==
    /\ Len(photos) = 2
    /\ status[1] = "ok"
    /\ status[2] = "open"
    /\ Cardinality(StreamRequests) = 2
    /\ pc = "drain"

(***************************************************************************)
(* Claims about the value main returns, checked under Spec.                *)
(***************************************************************************)
\* C14: a run started through main that has ended with fewer than two style
\* images, or with the credential unset or empty, or with an error of
\* summarize_style, returned 1; a run that ended because the operator declined
\* (ABORTED) or because every target was attempted (DONE) returned 0.
ExitStatus ==
    (entry = "main" /\ RunEnded) =>
        /\ Len(style_images) < 2 => main_result = <<1>>
        /\ api_key \in {None, Some(<<>>)} => main_result = <<1>>
        /\ exc \in SummaryErrors => main_result = <<1>>
        /\ pc \in {"aborted", "done"} => main_result = <<0>>

\* C14 witness: main was given two style images and a credential, the service
\* answered the summarize request with whitespace only, and main returned 1.
ExitStatusWitness ==
    /\ entry = "main"
    /\ Len(style_images) = 2
    /\ api_key = Some(<<"k">>)
    /\ exc = <<"StylePipelineError", "Received an empty style description.">>
    /\ pc = "failed"
    /\ main_result = <<1>>

(***************************************************************************)
(* Claims about what a streaming request carries, checked under Spec.      *)
(***************************************************************************)
\* C12: every streaming request carries the style images in the order the
\* caller gave them, then the photo of its target and nothing after it, and
\* one text: the prompt that was printed before the approval question.  All
\* streaming requests of a run carry the same text.
RequestComposition ==
    /\ \A r \in StreamRequests :
         LET q == requests[r]
             n == Len(style_images)
         IN  /\ Len(q.images) = n + 1
             /\ \A i \in 1..n : q.images[i] = style_images[i]
             /\ q.images[n + 1] = photos[q.target]
             /\ printed # None
             /\ q.text = Val(printed)
    /\ \A r1, r2 \in StreamRequests : requests[r1].text = requests[r2].text

\* C12 witness: style images s2, s1 in that order and two different photos,
\* both submitted with the printed prompt.
RequestCompositionWitness ==
    /\ style_images = <<S2, S1>>
    /\ Len(photos) = 2
    /\ photos[1] # photos[2]
    /\ Cardinality(StreamRequests) = 2
    /\ \A r \in StreamRequests :
         /\ requests[r].images = <<S2, S1, photos[requests[r].target]>>
         /\ requests[r].text = Val(printed)

(***************************************************************************)
(* Claims about the output subdirectories, checked under Spec.             *)
(***************************************************************************)
\* C13 (as claimed): any two decoder calls made for different target paths
\* were given different output directories.
ExclusiveSubdirectories ==
    \A d1, d2 \in 1..Len(decoded) :
        photos[decoded[d1].target] # photos[decoded[d2].target] =>
            decoded[d1].output_dir # decoded[d2].output_dir

\* C13 (amended): any two decoder calls made for targets whose file names
\* differ once the directory and the last suffix are removed were given
\* different output directories.
ExclusiveSubdirectoriesByStem ==
    \A d1, d2 \in 1..Len(decoded) :
        Stem(photos[decoded[d1].target]) # Stem(photos[decoded[d2].target]) =>
            decoded[d1].output_dir # decoded[d2].output_dir

\* C13 witness: a/t.j and u.j were both decoded, into styled_output/t and
\* styled_output/u.
ExclusiveSubdirectoriesWitness ==
    /\ photos = << <<"a", "/", "t", ".", "j">>, <<"u", ".", "j">> >>
    /\ Len(decoded) = 2
    /\ decoded[1] = [target |-> 1, output_dir |-> OutputDir \o <<"/", "t">>]
    /\ decoded[2] = [target |-> 2, output_dir |-> OutputDir \o <<"/", "u">>]

(***************************************************************************)
(* Claims about build_prompt, checked under SpecBuildPrompt.               *)
(***************************************************************************)
\* C15: every value build_prompt returned for the arguments base and style is
\* base, then two newlines, then the two fixed lines of connective text, then
\* style with no character added, removed or changed; every call on the same
\* arguments returned the same value.
BuildPromptLayout ==
    \A i \in 1..Len(bp_results) :
        LET r == bp_results[i]
            b == Val(bp_base_prompt)
            d == Val(bp_style_description)
        IN  /\ Len(r) = Len(b) + 4 + Len(d)
            /\ SubSeq(r, 1, Len(b)) = b
            /\ r[Len(b) + 1] = "\n"
            /\ r[Len(b) + 2] = "\n"
            /\ r[Len(b) + 3] =
                 "Apply the following postcard style details to the target photo while \n"
            /\ r[Len(b) + 4] = "preserving the primary subject and composition: \n"
            /\ SubSeq(r, Len(b) + 5, Len(r)) = d
            /\ r = bp_results[1]

\* C15 witness: two calls with a base ending in a space and a style description
\* beginning with one; both returned the same prompt with the spaces kept.
BuildPromptLayoutWitness ==
    /\ bp_base_prompt = Some(<<"a", " ">>)
    /\ bp_style_description = Some(<<" ", "a">>)
    /\ Len(bp_results) = 2
    /\ bp_results[1][2] = " "
    /\ bp_results[1][7] = " "
    /\ bp_results[2] = bp_results[1]

\* C17 (as claimed): the text of a part does not depend on its image data: when
\* the decoder returns, its texts are the non-empty texts of every part of the
\* stream in arrival order, those of the parts that carried an image payload
\* included.
TextKeptBesideImage == dec_pc = "returned" => texts = arrived_texts

(***************************************************************************)
(* Claims about the form front-end, checked under SpecUi.                  *)
(***************************************************************************)
\* C18: a run of main submits a request, and saves uploads, only when the
\* button was pressed, the credential is set and not empty, and between one
\* and five files are uploaded; a run with the button pressed and no
\* credential, no file or more than five files has, once past its checks,
\* returned with exactly one error shown, no upload saved, no prompt built and
\* no request submitted.
RemixGate ==
    LET n == Len(uploaded_images)
        unfit == ui_api_key \in {None, Some(<<>>)} \/ n < 1 \/ n > 5
    IN  /\ Len(ui_requests) <= 1
        /\ (ui_requests # <<>> \/ saved_paths # None) => (generate /\ ~unfit)
        /\ (generate /\ unfit /\ ui_pc # "start") =>
              /\ ui_pc = "returned"
              /\ Len(st_error) = 1
              /\ saved_paths = None
              /\ ui_prompt = None
              /\ ui_requests = <<>>

\* C18 witness: the button was pressed with a credential and six files; the run
\* returned with the error about the limit and without a request.
RemixGateWitness ==
    /\ generate
    /\ ui_api_key = Some(<<"k">>)
    /\ Len(uploaded_images) = 6
    /\ ui_pc = "returned"
    /\ st_error = <<"Please upload no more than five images.">>
    /\ saved_paths = None
    /\ ui_requests = <<>>

\* C18, the passing side: with a credential and five files the five saved
\* uploads were submitted in one request.
RemixGateSubmits ==
    /\ generate
    /\ Len(uploaded_images) = 5
    /\ Len(ui_requests) = 1
    /\ Len(ui_requests[1].images) = 5
    /\ st_error = <<>>

====
